---- MODULE Spec2Model ----
(***************************************************************************)
(* ReactDOMEventListener.js as a state machine.                            *)
(*                                                                         *)
(* JavaScript runs the module on one thread; a native listener runs to     *)
(* completion, but an event handler called from the delivery loop may fire *)
(* another native event, which re-enters the module.  The state is         *)
(* therefore the module's two globals (_enabled, callbackBookkeepingPool), *)
(* the heap of BookKeepingInstance objects, the fiber trees the traversal  *)
(* reads, and the call stack of listener activations, one frame per native *)
(* event being handled, each with its program counter.                     *)
(***************************************************************************)
EXTENDS Integers, Sequences, FiniteSets, TLC

(***************************************************************************)
(* Bounds of the model.                                                    *)
(***************************************************************************)
\* Deepest stack of listener activations in Spec: with 1 the host fires the
\* events one after the other, with more a handler fires events too.
MaxDepth == 1
\* Deepest stack of listener activations in SpecNested.
NestDepth == 2
\* How many tree mutations (by handlers or between events) a behaviour holds.
MaxMutations == 1
\* SpecDeep nests CALLBACK_BOOKKEEPING_POOL_SIZE + ExtraDepth events.
ExtraDepth == 1

(***************************************************************************)
(* Program constants.                                                      *)
(***************************************************************************)
CALLBACK_BOOKKEEPING_POOL_SIZE == 10

\* events/EventSystemFlags: one bit each.
PLUGIN_EVENT_SYSTEM == 1
RESPONDER_EVENT_SYSTEM == 2
IS_PASSIVE == 4
IS_ACTIVE == 8
PASSIVE_NOT_SUPPORTED == 16

\* shared/ReactWorkTags: the tag of a root fiber, and the tag of a host
\* component (any tag other than HostRoot behaves alike here).
HostRoot == 3
HostComponent == 5

\* JavaScript's null, for fibers, nodes, events and record ids alike.
NULL == 0

(***************************************************************************)
(* The world the module is run against: two mounted trees, the inner one   *)
(* mounted in a container that is a node of the outer one, a detached      *)
(* fragment, a fiber whose mount is not committed, and a node outside      *)
(* React.                                                                  *)
(*   fiber 1  HostRoot of the outer tree, container node 11                *)
(*   fiber 2  host component of the outer tree, owns node 12 and node 13   *)
(*   fiber 3  HostRoot of the inner tree, container node 13                *)
(*   fiber 4  host component of the inner tree, owns node 14               *)
(*   fiber 5  top of a detached fragment, owns node 15                     *)
(*   fiber 6  child of fiber 1 whose mount is not committed, owns node 16  *)
(*   node 10  outside every React tree                                     *)
(***************************************************************************)
Fibers == 1..6
Nodes == 10..16

InitialReturn == (1 :> NULL) @@ (2 :> 1) @@ (3 :> NULL) @@ (4 :> 3) @@ (5 :> NULL) @@ (6 :> 1)
InitialTag ==
    (1 :> HostRoot) @@ (2 :> HostComponent) @@ (3 :> HostRoot) @@
    (4 :> HostComponent) @@ (5 :> HostComponent) @@ (6 :> HostComponent)
\* inst.stateNode.containerInfo of the root fibers.
ContainerInfo == (1 :> 11) @@ (2 :> NULL) @@ (3 :> 13) @@ (4 :> NULL) @@ (5 :> NULL) @@ (6 :> NULL)
InitialInstance ==
    (10 :> NULL) @@ (11 :> NULL) @@ (12 :> 2) @@ (13 :> 2) @@ (14 :> 4) @@ (15 :> 5) @@ (16 :> 6)

\* Native events: event e is fired on node EventTargets[e].
EventTargets == <<12, 14, 15, 10, 16>>
NativeEvents == 1..Len(EventTargets)

\* "click" is an interactive top-level type, "scroll" is not.
TopLevelTypes == {"click", "scroll"}

VARIABLES
    enableEventAPI,                \* shared/ReactFeatureFlags, fixed per build
    passiveBrowserEventsSupported, \* ./checkPassiveEvents, fixed per host
    _enabled,                      \* line 156
    callbackBookkeepingPool,       \* line 51: sequence of record ids
    heap,                          \* live BookKeepingInstance objects, by id
    fiberReturn,                   \* fiber.return
    fiberTag,                      \* fiber.tag
    nodeInstance,                  \* what getClosestInstanceFromNode finds
    mutations,                     \* tree mutations so far (bounded)
    deliveryFailed,                \* history: some handler has thrown
    stack                          \* listener activations, outermost first

vars ==
    <<enableEventAPI, passiveBrowserEventsSupported, _enabled,
      callbackBookkeepingPool, heap, fiberReturn, fiberTag, nodeInstance,
      mutations, deliveryFailed, stack>>

flagVars == <<enableEventAPI, passiveBrowserEventsSupported>>
treeVars == <<fiberReturn, fiberTag, nodeInstance, mutations>>
poolVars == <<callbackBookkeepingPool, heap>>

(***************************************************************************)
(* External collaborators, as the module uses them.                        *)
(***************************************************************************)
getEventTarget(nativeEvent) == EventTargets[nativeEvent]

getClosestInstanceFromNode(node) == nodeInstance[node]

isFiberMounted(fiber) == fiber # 6

isInteractiveTopLevelEventType(topLevelType) == topLevelType = "click"

\* One call to an external collaborator, as the trace of a listener
\* activation records it.  Unused arguments are NULL / "" / FALSE.
Call(fn, topLevelType, inst, nativeEvent, node, flags, ret) ==
    [fn |-> fn, topLevelType |-> topLevelType, inst |-> inst,
     nativeEvent |-> nativeEvent, node |-> node, flags |-> flags, ret |-> ret]

(***************************************************************************)
(* findRootContainerNode, lines 67-79.                                     *)
(***************************************************************************)
RECURSIVE TopFiber(_)
TopFiber(inst) ==
    IF fiberReturn[inst] # NULL THEN TopFiber(fiberReturn[inst]) ELSE inst

findRootContainerNode(inst) ==
    LET top == TopFiber(inst)
    IN  IF fiberTag[top] # HostRoot THEN NULL ELSE ContainerInfo[top]

(***************************************************************************)
(* The bookkeeping pool, lines 50-113.  A record is an object: the pool    *)
(* and the frames hold its id, the heap holds its fields.  A record that   *)
(* nothing refers to any more is garbage and leaves the heap.              *)
(***************************************************************************)
BookKeepingInstance(topLevelType, nativeEvent, targetInst, ancestors) ==
    [topLevelType |-> topLevelType, nativeEvent |-> nativeEvent,
     targetInst |-> targetInst, ancestors |-> ancestors]

\* The identity of a newly allocated object: one that no live object has.
NewObject(h) == CHOOSE id \in 1..(Cardinality(DOMAIN h) + 1) : id \notin DOMAIN h

\* A variant of getTopLevelCallbackBookKeeping that reads the last record of
\* the pool and leaves it there (pool[pool.length - 1] for pool.pop()).
getWithoutPop(pool, h, topLevelType, nativeEvent, targetInst) ==
    IF Len(pool) # 0
    THEN LET instance == pool[Len(pool)]
         IN  [pool |-> pool,
              heap |-> [h EXCEPT ![instance].topLevelType = topLevelType,
                                 ![instance].nativeEvent = nativeEvent,
                                 ![instance].targetInst = targetInst],
              instance |-> instance]
    ELSE LET instance == NewObject(h)
         IN  [pool |-> pool,
              heap |-> h @@ (instance :>
                          BookKeepingInstance(topLevelType, nativeEvent, targetInst, <<>>)),
              instance |-> instance]

\* A variant that does not store targetInst in a record it takes from the pool.
getWithoutTarget(pool, h, topLevelType, nativeEvent, targetInst) ==
    IF Len(pool) # 0
    THEN LET instance == pool[Len(pool)]
         IN  [pool |-> SubSeq(pool, 1, Len(pool) - 1),
              heap |-> [h EXCEPT ![instance].topLevelType = topLevelType,
                                 ![instance].nativeEvent = nativeEvent],
              instance |-> instance]
    ELSE LET instance == NewObject(h)
         IN  [pool |-> pool,
              heap |-> h @@ (instance :>
                          BookKeepingInstance(topLevelType, nativeEvent, targetInst, <<>>)),
              instance |-> instance]

\* Lines 83-101.  Gives the pool and the heap after the call and the record
\* returned.
getTopLevelCallbackBookKeeping(pool, h, topLevelType, nativeEvent, targetInst) ==
    IF Len(pool) # 0
    THEN LET instance == pool[Len(pool)]
         IN  [pool |-> SubSeq(pool, 1, Len(pool) - 1),
              heap |-> [h EXCEPT ![instance].topLevelType = topLevelType,
                                 ![instance].nativeEvent = nativeEvent,
                                 ![instance].targetInst = targetInst],
              instance |-> instance]
    ELSE LET instance == NewObject(h)
         IN  [pool |-> pool,
              heap |-> h @@ (instance :>
                          BookKeepingInstance(topLevelType, nativeEvent, targetInst, <<>>)),
              instance |-> instance]

\* A variant of releaseTopLevelCallbackBookKeeping without line 109: the
\* ancestors stay in the record.
releaseWithoutTruncate(pool, h, instance) ==
    LET cleared == [h EXCEPT ![instance].topLevelType = "",
                             ![instance].nativeEvent = NULL,
                             ![instance].targetInst = NULL]
    IN  IF Len(pool) < CALLBACK_BOOKKEEPING_POOL_SIZE
        THEN [pool |-> Append(pool, instance), heap |-> cleared]
        ELSE [pool |-> pool,
              heap |-> [id \in DOMAIN h \ {instance} |-> cleared[id]]]

\* A variant without the test of line 110: every record goes back to the pool.
releaseUnbounded(pool, h, instance) ==
    [pool |-> Append(pool, instance),
     heap |-> [h EXCEPT ![instance] = BookKeepingInstance("", NULL, NULL, <<>>)]]

\* Lines 103-113.  Gives the pool and the heap after the call.
releaseTopLevelCallbackBookKeeping(pool, h, instance) ==
    LET cleared == [h EXCEPT ![instance] = BookKeepingInstance("", NULL, NULL, <<>>)]
    IN  IF Len(pool) < CALLBACK_BOOKKEEPING_POOL_SIZE
        THEN [pool |-> Append(pool, instance), heap |-> cleared]
        ELSE [pool |-> pool,
              heap |-> [id \in DOMAIN h \ {instance} |-> cleared[id]]]

(***************************************************************************)
(* handleTopLevel, lines 115-153.                                          *)
(***************************************************************************)
\* A variant of the loop that stops after the first tree: it does not look
\* for the instance that owns the container (line 137).
CollectAncestorsOneTree(ancestor, ancestors) ==
    IF ancestor = NULL
    THEN Append(ancestors, ancestor)
    ELSE IF findRootContainerNode(ancestor) = NULL
         THEN ancestors
         ELSE Append(ancestors, ancestor)

\* A variant with while (true) for while (ancestor): the owner of the
\* outermost container, null, goes through the test of line 127 too.
RECURSIVE CollectAncestorsToAbsent(_, _)
CollectAncestorsToAbsent(ancestor, ancestors) ==
    IF ancestor = NULL
    THEN Append(ancestors, ancestor)
    ELSE LET root == findRootContainerNode(ancestor)
         IN  IF root = NULL
             THEN ancestors
             ELSE CollectAncestorsToAbsent(getClosestInstanceFromNode(root),
                                           Append(ancestors, ancestor))

\* A variant that pushes the ancestor (line 136) before it tests the root
\* (lines 133-135).
RECURSIVE CollectAncestorsPushFirst(_, _)
CollectAncestorsPushFirst(ancestor, ancestors) ==
    IF ancestor = NULL
    THEN Append(ancestors, ancestor)
    ELSE LET root == findRootContainerNode(ancestor)
         IN  IF root = NULL
             THEN Append(ancestors, ancestor)
             ELSE LET next == getClosestInstanceFromNode(root)
                  IN  IF next # NULL
                      THEN CollectAncestorsPushFirst(next, Append(ancestors, ancestor))
                      ELSE Append(ancestors, ancestor)

\* Lines 125-138: the do-while loop, which pushes onto bookKeeping.ancestors.
RECURSIVE CollectAncestors(_, _)
CollectAncestors(ancestor, ancestors) ==
    IF ancestor = NULL
    THEN Append(ancestors, ancestor)
    ELSE LET root == findRootContainerNode(ancestor)
         IN  IF root = NULL
             THEN ancestors
             ELSE LET next == getClosestInstanceFromNode(root)
                  IN  IF next # NULL
                      THEN CollectAncestors(next, Append(ancestors, ancestor))
                      ELSE Append(ancestors, ancestor)

\* A variant of the loop condition that walks the trees again at every
\* iteration instead of reading the ancestors collected before the first
\* handler ran.
MoreAncestorsInCurrentTree(bookKeeping, i) ==
    i < Len(CollectAncestors(bookKeeping.targetInst, <<>>))

\* A variant of the loop condition that gives up once the module is disabled.
MoreAncestorsWhileEnabled(bookKeeping, i) == _enabled /\ i < Len(bookKeeping.ancestors)

\* Line 140: the loop condition, read from the record at every iteration.
MoreAncestors(bookKeeping, i) == i < Len(bookKeeping.ancestors)

\* Lines 141-151: the call of iteration i (0-based), read from the record.
Delivery(bookKeeping, i) ==
    Call("runExtractedPluginEventsInBatch", bookKeeping.topLevelType,
         bookKeeping.ancestors[i + 1], bookKeeping.nativeEvent,
         getEventTarget(bookKeeping.nativeEvent), NULL, FALSE)

(***************************************************************************)
(* The registrar, lines 166-235.  Each trap gives the set of listeners it  *)
(* attaches: the phase, the passive option, and the function and arguments *)
(* the listener is bound to.                                               *)
(***************************************************************************)
\* attach is the primitive of ./EventListener that adds the listener; the
\* phase follows from it.
Listener(attach, passive, dispatch, topLevelType, eventSystemFlags) ==
    [attach |-> attach,
     phase |-> IF attach = "addEventBubbleListener" THEN "bubble" ELSE "capture",
     passive |-> passive, dispatch |-> dispatch,
     topLevelType |-> topLevelType, eventSystemFlags |-> eventSystemFlags]

\* A variant of trapEventForPluginEventSystem that binds
\* dispatchInteractiveEvent for every type.
trapEventForPluginEventSystemInteractive(topLevelType, capture) ==
    {Listener(IF capture THEN "addEventCaptureListener" ELSE "addEventBubbleListener",
              FALSE, "dispatchInteractiveEvent", topLevelType, PLUGIN_EVENT_SYSTEM)}

\* Lines 219-235.
trapEventForPluginEventSystem(topLevelType, capture) ==
    LET dispatch == IF isInteractiveTopLevelEventType(topLevelType)
                    THEN "dispatchInteractiveEvent"
                    ELSE "dispatchEvent"
    IN  {Listener(IF capture THEN "addEventCaptureListener" ELSE "addEventBubbleListener",
                  FALSE, dispatch, topLevelType, PLUGIN_EVENT_SYSTEM)}

\* Lines 166-171.
trapBubbledEvent(topLevelType) == trapEventForPluginEventSystem(topLevelType, FALSE)

\* Lines 173-178.
trapCapturedEvent(topLevelType) == trapEventForPluginEventSystem(topLevelType, TRUE)

\* A variant of trapEventForResponderEventSystem without the else branch of
\* lines 196-200: a passive request is flagged passive on every host.
trapEventForResponderEventSystemNoFallback(topLevelType, passive) ==
    IF enableEventAPI
    THEN LET eventFlags ==
                 RESPONDER_EVENT_SYSTEM + (IF passive THEN IS_PASSIVE ELSE IS_ACTIVE)
             passiveOption == passive /\ passiveBrowserEventsSupported
             attach == IF passiveBrowserEventsSupported
                       THEN "addEventCaptureListenerWithPassiveFlag"
                       ELSE "addEventCaptureListener"
         IN  {Listener(attach, passiveOption, "dispatchEvent", topLevelType, eventFlags)}
    ELSE {}

\* Lines 180-217.  The flags are disjoint bits, so | is +.
trapEventForResponderEventSystem(topLevelType, passive) ==
    IF enableEventAPI
    THEN LET eventFlags ==
                 RESPONDER_EVENT_SYSTEM +
                 (IF passive
                  THEN IF passiveBrowserEventsSupported
                       THEN IS_PASSIVE
                       ELSE IS_ACTIVE + PASSIVE_NOT_SUPPORTED
                  ELSE IS_ACTIVE)
             passiveOption == passive /\ passiveBrowserEventsSupported
             attach == IF passiveBrowserEventsSupported
                       THEN "addEventCaptureListenerWithPassiveFlag"
                       ELSE "addEventCaptureListener"
         IN  {Listener(attach, passiveOption, "dispatchEvent", topLevelType, eventFlags)}
    ELSE {}

\* The listeners native events arrive on: those the traps attach.
AttachedListeners ==
    UNION {trapBubbledEvent(t) \cup trapCapturedEvent(t) : t \in TopLevelTypes}
    \cup UNION {trapEventForResponderEventSystem(t, p) : t \in TopLevelTypes, p \in BOOLEAN}

(***************************************************************************)
(* The call stack.  A frame is one activation of a listener; pc is where   *)
(* it stands:                                                              *)
(*   dispatchInteractiveEvent   at line 237                                *)
(*   dispatchEvent              at line 266                                *)
(*   handleTopLevel             at line 116, inside batchedEventUpdates    *)
(*   loop                       at line 140                                *)
(*   handler                    inside runExtractedPluginEventsInBatch     *)
(*   responder                  inside dispatchEventForResponderEventSystem*)
(*   finally                    at line 262                                *)
(*   return                     back at the caller of the listener         *)
(* exc says an error is propagating.  The other fields are history: threw  *)
(* says a handler of this activation has thrown, trace is the activation's *)
(* calls to external collaborators so far, built is the record's ancestors *)
(* as line 138 left them.  noPool and noPoolTrace are the record and the trace of  *)
(* the same activation run without the pool (every acquire allocates, every*)
(* release discards): that record is owned by the activation alone, so the *)
(* frame holds it by value.                                                *)
(***************************************************************************)
NoRecord == BookKeepingInstance("", NULL, NULL, <<>>)

Frame(listener, nativeEvent) ==
    [pc |-> listener.dispatch,
     dispatch |-> listener.dispatch,
     topLevelType |-> listener.topLevelType,
     eventSystemFlags |-> listener.eventSystemFlags,
     nativeEvent |-> nativeEvent,
     targetInst |-> NULL,
     bookKeeping |-> NULL,
     i |-> 0,
     exc |-> FALSE,
     threw |-> FALSE,
     built |-> <<>>,
     trace |-> <<>>,
     noPool |-> NoRecord,
     noPoolTrace |-> <<>>]

Top == stack[Len(stack)]

SetTop(frame) == [stack EXCEPT ![Len(stack)] = frame]

\* Control is in the host (no listener runs) or in an event handler.
InHandler == stack # <<>> /\ Top.pc \in {"handler", "responder"}
AtRest == stack = <<>>

(***************************************************************************)
(* Init: the module just loaded.                                           *)
(***************************************************************************)
Init ==
    /\ enableEventAPI \in BOOLEAN
    /\ passiveBrowserEventsSupported \in BOOLEAN
    /\ _enabled = TRUE
    /\ callbackBookkeepingPool = <<>>
    /\ heap = <<>>
    /\ fiberReturn = InitialReturn
    /\ fiberTag = InitialTag
    /\ nodeInstance = InitialInstance
    /\ mutations = 0
    /\ deliveryFailed = FALSE
    /\ stack = <<>>

(***************************************************************************)
(* The environment: the host fires a native event on an attached listener, *)
(* or an event handler does; either may toggle the module (setEnabled) and *)
(* change the trees.                                                       *)
(***************************************************************************)
NativeEvent(listener, nativeEvent, depth) ==
    /\ AtRest \/ InHandler
    /\ Len(stack) < depth
    /\ stack' = Append(stack, Frame(listener, nativeEvent))
    /\ UNCHANGED <<flagVars, _enabled, poolVars, treeVars, deliveryFailed>>

\* Lines 158-160.
setEnabled(enabled) ==
    /\ AtRest \/ InHandler
    /\ _enabled # enabled
    /\ _enabled' = enabled
    /\ UNCHANGED <<flagVars, poolVars, treeVars, deliveryFailed, stack>>

\* A fiber is cut from its parent.
MutateParentLink ==
    /\ AtRest \/ InHandler
    /\ mutations < MaxMutations
    /\ fiberReturn[4] # NULL
    /\ fiberReturn' = [fiberReturn EXCEPT ![4] = NULL]
    /\ mutations' = mutations + 1
    /\ UNCHANGED <<flagVars, _enabled, poolVars, fiberTag, nodeInstance, deliveryFailed, stack>>

\* The inner root stops being a root.
MutateRootTag ==
    /\ AtRest \/ InHandler
    /\ mutations < MaxMutations
    /\ fiberTag[3] = HostRoot
    /\ fiberTag' = [fiberTag EXCEPT ![3] = HostComponent]
    /\ mutations' = mutations + 1
    /\ UNCHANGED <<flagVars, _enabled, poolVars, fiberReturn, nodeInstance, deliveryFailed, stack>>

\* The inner tree's container leaves the outer tree.
MutateContainerOwner ==
    /\ AtRest \/ InHandler
    /\ mutations < MaxMutations
    /\ nodeInstance[13] # NULL
    /\ nodeInstance' = [nodeInstance EXCEPT ![13] = NULL]
    /\ mutations' = mutations + 1
    /\ UNCHANGED <<flagVars, _enabled, poolVars, fiberReturn, fiberTag, deliveryFailed, stack>>

\* The inner tree's container moves into the detached fragment.
MutateContainerTree ==
    /\ AtRest \/ InHandler
    /\ mutations < MaxMutations
    /\ nodeInstance[13] = 2
    /\ nodeInstance' = [nodeInstance EXCEPT ![13] = 5]
    /\ mutations' = mutations + 1
    /\ UNCHANGED <<flagVars, _enabled, poolVars, fiberReturn, fiberTag, deliveryFailed, stack>>

\* Line 266: dispatchEvent is exported, so code other than the listeners of
\* the traps calls it too, with the event system flags it chooses.
DispatchEventCall(topLevelType, eventSystemFlags, nativeEvent, depth) ==
    /\ AtRest \/ InHandler
    /\ Len(stack) < depth
    /\ stack' = Append(stack, Frame([dispatch |-> "dispatchEvent",
                                     topLevelType |-> topLevelType,
                                     eventSystemFlags |-> eventSystemFlags],
                                    nativeEvent))
    /\ UNCHANGED <<flagVars, _enabled, poolVars, treeVars, deliveryFailed>>

(***************************************************************************)
(* dispatchInteractiveEvent, lines 237-242.                                *)
(***************************************************************************)
\* A variant of dispatchInteractiveEvent that calls dispatchEvent itself
\* instead of handing it to discreteUpdates.
InteractiveCallsWithoutDiscrete(topLevelType, eventSystemFlags, nativeEvent, shouldFlush) ==
    (IF enableEventAPI
     THEN <<Call("shouldflushDiscreteUpdates", "", NULL, nativeEvent, NULL, NULL, shouldFlush)>>
     ELSE <<>>)
    \o (IF ~enableEventAPI \/ shouldFlush
        THEN <<Call("flushDiscreteUpdates", "", NULL, NULL, NULL, NULL, FALSE)>>
        ELSE <<>>)

\* A variant that flushes whatever shouldflushDiscreteUpdates answers.
InteractiveCallsAlwaysFlush(topLevelType, eventSystemFlags, nativeEvent, shouldFlush) ==
    (IF enableEventAPI
     THEN <<Call("shouldflushDiscreteUpdates", "", NULL, nativeEvent, NULL, NULL, shouldFlush)>>
     ELSE <<>>)
    \o <<Call("flushDiscreteUpdates", "", NULL, NULL, NULL, NULL, FALSE)>>
    \o <<Call("discreteUpdates", topLevelType, NULL, nativeEvent, NULL, eventSystemFlags, FALSE)>>

\* The calls it makes before dispatchEvent runs; shouldFlush is what
\* shouldflushDiscreteUpdates answers when it is asked.
InteractiveCalls(topLevelType, eventSystemFlags, nativeEvent, shouldFlush) ==
    (IF enableEventAPI
     THEN <<Call("shouldflushDiscreteUpdates", "", NULL, nativeEvent, NULL, NULL, shouldFlush)>>
     ELSE <<>>)
    \o (IF ~enableEventAPI \/ shouldFlush
        THEN <<Call("flushDiscreteUpdates", "", NULL, NULL, NULL, NULL, FALSE)>>
        ELSE <<>>)
    \o <<Call("discreteUpdates", topLevelType, NULL, nativeEvent, NULL, eventSystemFlags, FALSE)>>

dispatchInteractiveEvent ==
    /\ stack # <<>>
    /\ Top.pc = "dispatchInteractiveEvent"
    /\ \E shouldFlush \in (IF enableEventAPI THEN BOOLEAN ELSE {FALSE}) :
         LET calls == InteractiveCalls(Top.topLevelType, Top.eventSystemFlags,
                                       Top.nativeEvent, shouldFlush)
         IN  stack' = SetTop([Top EXCEPT !.pc = "dispatchEvent",
                                         !.trace = @ \o calls,
                                         !.noPoolTrace = @ \o calls])
    /\ UNCHANGED <<flagVars, _enabled, poolVars, treeVars, deliveryFailed>>

(***************************************************************************)
(* dispatchEvent, lines 266-317, with dispatchEventForPluginEventSystem,   *)
(* lines 244-260, up to the call of handleTopLevel by batchedEventUpdates. *)
(***************************************************************************)
\* A variant of dispatchEvent without the test of lines 271-273.
RouteIgnoringEnabled(enabled, eventSystemFlags) ==
    IF enableEventAPI
    THEN IF eventSystemFlags = PLUGIN_EVENT_SYSTEM THEN "plugin" ELSE "responder"
    ELSE "plugin"

\* A variant of dispatchEvent without the test of line 291: the flags alone
\* choose the event system.
RouteByFlagsOnly(enabled, eventSystemFlags) ==
    IF ~enabled THEN "return"
    ELSE IF eventSystemFlags = PLUGIN_EVENT_SYSTEM THEN "plugin" ELSE "responder"

\* Lines 271-273 and 291-316: where the call goes.
Route(enabled, eventSystemFlags) ==
    IF ~enabled THEN "return"
    ELSE IF enableEventAPI
         THEN IF eventSystemFlags = PLUGIN_EVENT_SYSTEM THEN "plugin" ELSE "responder"
         ELSE "plugin"

\* A variant of dispatchEvent without the test of lines 277-289.
ResolveTargetUnchecked(nativeEventTarget) == getClosestInstanceFromNode(nativeEventTarget)

\* Lines 275-289.  Every instance is a fiber, so typeof targetInst.tag is
\* 'number' whenever targetInst is not null.
ResolveTarget(nativeEventTarget) ==
    LET targetInst == getClosestInstanceFromNode(nativeEventTarget)
    IN  IF targetInst # NULL /\ ~isFiberMounted(targetInst) THEN NULL ELSE targetInst

\* A variant of dispatchEventForPluginEventSystem that calls
\* handleTopLevel(bookKeeping) itself, outside any batch.
BatchedCallsUnbatched(bookKeeping) == <<>>

\* Line 260: batchedEventUpdates(handleTopLevel, bookKeeping), the one call
\* the try block makes.  The record is traced by its contents, the last
\* slot but one holding the number of its ancestors.
BatchedCalls(bookKeeping) ==
    <<Call("batchedEventUpdates", bookKeeping.topLevelType, bookKeeping.targetInst,
           bookKeeping.nativeEvent, NULL, Len(bookKeeping.ancestors), FALSE)>>

dispatchEvent ==
    /\ stack # <<>>
    /\ Top.pc = "dispatchEvent"
    /\ LET route == Route(_enabled, Top.eventSystemFlags)
           nativeEventTarget == getEventTarget(Top.nativeEvent)
           targetInst == ResolveTarget(nativeEventTarget)
           resolve == Call("getClosestInstanceFromNode", "", NULL, NULL,
                           nativeEventTarget, NULL, FALSE)
       IN  CASE route = "return" ->
                 /\ stack' = SetTop([Top EXCEPT !.pc = "return"])
                 /\ UNCHANGED poolVars
             [] route = "responder" ->
                 LET deliverAlt == Call("dispatchEventForResponderEventSystem",
                                        Top.topLevelType, targetInst, Top.nativeEvent,
                                        nativeEventTarget, Top.eventSystemFlags, FALSE)
                 IN  /\ stack' = SetTop([Top EXCEPT !.pc = "responder",
                                                    !.targetInst = targetInst,
                                                    !.trace = @ \o <<resolve, deliverAlt>>,
                                                    !.noPoolTrace = @ \o <<resolve, deliverAlt>>])
                     /\ UNCHANGED poolVars
             [] route = "plugin" ->
                 LET got == getTopLevelCallbackBookKeeping(callbackBookkeepingPool, heap,
                                Top.topLevelType, Top.nativeEvent, targetInst)
                     fresh == BookKeepingInstance(Top.topLevelType, Top.nativeEvent,
                                                  targetInst, <<>>)
                 IN  /\ callbackBookkeepingPool' = got.pool
                     /\ heap' = got.heap
                     /\ stack' = SetTop([Top EXCEPT
                            !.pc = "handleTopLevel",
                            !.targetInst = targetInst,
                            !.bookKeeping = got.instance,
                            !.trace = @ \o <<resolve>>
                                        \o BatchedCalls(got.heap[got.instance]),
                            !.noPool = fresh,
                            !.noPoolTrace = @ \o <<resolve>> \o BatchedCalls(fresh)])
    /\ UNCHANGED <<flagVars, _enabled, treeVars, deliveryFailed>>

(***************************************************************************)
(* handleTopLevel, lines 115-153.                                          *)
(***************************************************************************)
\* Lines 116-138: the ancestors are collected, with no call to a handler.
handleTopLevel ==
    /\ stack # <<>>
    /\ Top.pc = "handleTopLevel"
    /\ LET bookKeeping == heap[Top.bookKeeping]
           ancestors == CollectAncestors(bookKeeping.targetInst, bookKeeping.ancestors)
       IN  /\ heap' = [heap EXCEPT ![Top.bookKeeping].ancestors = ancestors]
           /\ stack' = SetTop([Top EXCEPT
                  !.pc = "loop",
                  !.i = 0,
                  !.built = ancestors,
                  !.noPool.ancestors =
                      CollectAncestors(Top.noPool.targetInst, Top.noPool.ancestors)])
    /\ UNCHANGED <<flagVars, _enabled, callbackBookkeepingPool, treeVars, deliveryFailed>>

\* Lines 140-152: one test of the loop condition and, if it holds, the call
\* of runExtractedPluginEventsInBatch.
handleTopLevelLoop ==
    /\ stack # <<>>
    /\ Top.pc = "loop"
    /\ LET bookKeeping == heap[Top.bookKeeping]
           noPoolCalls == IF MoreAncestors(Top.noPool, Top.i)
                          THEN <<Delivery(Top.noPool, Top.i)>>
                          ELSE <<>>
       IN  IF MoreAncestors(bookKeeping, Top.i)
           THEN stack' = SetTop([Top EXCEPT !.pc = "handler",
                                            !.trace = Append(@, Delivery(bookKeeping, Top.i)),
                                            !.noPoolTrace = @ \o noPoolCalls])
           ELSE stack' = SetTop([Top EXCEPT !.pc = "finally",
                                            !.noPoolTrace = @ \o noPoolCalls])
    /\ UNCHANGED <<flagVars, _enabled, poolVars, treeVars, deliveryFailed>>

\* runExtractedPluginEventsInBatch returns: line 140, i++.
HandlerReturns ==
    /\ stack # <<>>
    /\ Top.pc = "handler"
    /\ stack' = SetTop([Top EXCEPT !.pc = "loop", !.i = @ + 1])
    /\ UNCHANGED <<flagVars, _enabled, poolVars, treeVars, deliveryFailed>>

\* runExtractedPluginEventsInBatch throws: the error leaves handleTopLevel
\* and batchedEventUpdates and reaches the finally of line 261.
HandlerThrows ==
    /\ stack # <<>>
    /\ Top.pc = "handler"
    /\ stack' = SetTop([Top EXCEPT !.pc = "finally", !.exc = TRUE, !.threw = TRUE])
    /\ deliveryFailed' = TRUE
    /\ UNCHANGED <<flagVars, _enabled, poolVars, treeVars>>

\* dispatchEventForResponderEventSystem returns or throws: dispatchEvent ends.
ResponderReturns ==
    /\ stack # <<>>
    /\ Top.pc = "responder"
    /\ stack' = SetTop([Top EXCEPT !.pc = "return"])
    /\ UNCHANGED <<flagVars, _enabled, poolVars, treeVars, deliveryFailed>>

ResponderThrows ==
    /\ stack # <<>>
    /\ Top.pc = "responder"
    /\ stack' = SetTop([Top EXCEPT !.pc = "return", !.exc = TRUE, !.threw = TRUE])
    /\ UNCHANGED <<flagVars, _enabled, poolVars, treeVars, deliveryFailed>>

(***************************************************************************)
(* dispatchEventForPluginEventSystem, lines 256-263: the finally block.    *)
(***************************************************************************)
\* A variant whose finally block ends in a return, which drops the error.
AfterFinallyReturns(exc) == FALSE

\* The block neither catches nor returns: an error that left the try block
\* goes on propagating after the release.
AfterFinally(exc) == exc

\* A variant that releases after the call of line 260 instead of in a
\* finally block: an error that leaves the call skips the release.
ReleaseOnNormalExit(pool, h, instance, exc) ==
    IF exc
    THEN [pool |-> pool, heap |-> h]
    ELSE releaseTopLevelCallbackBookKeeping(pool, h, instance)

\* Lines 261-263: the finally block releases the record however the try
\* block was left.
ReleaseOnExit(pool, h, instance, exc) ==
    releaseTopLevelCallbackBookKeeping(pool, h, instance)

Finally ==
    /\ stack # <<>>
    /\ Top.pc = "finally"
    /\ LET released == ReleaseOnExit(callbackBookkeepingPool, heap,
                                     Top.bookKeeping, Top.exc)
       IN  /\ callbackBookkeepingPool' = released.pool
           /\ heap' = released.heap
    /\ stack' = SetTop([Top EXCEPT !.pc = "return", !.exc = AfterFinally(@)])
    /\ UNCHANGED <<flagVars, _enabled, treeVars, deliveryFailed>>

\* The listener has returned (or thrown) to its caller.
Return ==
    /\ stack # <<>>
    /\ Top.pc = "return"
    /\ stack' = SubSeq(stack, 1, Len(stack) - 1)
    /\ UNCHANGED <<flagVars, _enabled, poolVars, treeVars, deliveryFailed>>

(***************************************************************************)
(* The specification.                                                      *)
(***************************************************************************)
\* The flags of the calls of dispatchEvent that come from no trap: those of
\* an active listener of the responder system.
DirectFlags == RESPONDER_EVENT_SYSTEM + IS_ACTIVE

Step ==
    \/ dispatchInteractiveEvent
    \/ dispatchEvent
    \/ handleTopLevel
    \/ handleTopLevelLoop
    \/ HandlerReturns
    \/ HandlerThrows
    \/ ResponderReturns
    \/ ResponderThrows
    \/ Finally
    \/ Return

Next ==
    \/ \E listener \in AttachedListeners, nativeEvent \in NativeEvents :
           NativeEvent(listener, nativeEvent, MaxDepth)
    \/ \E enabled \in BOOLEAN : setEnabled(enabled)
    \/ MutateParentLink
    \/ MutateRootTag
    \/ MutateContainerOwner
    \/ MutateContainerTree
    \/ \E nativeEvent \in NativeEvents :
           DispatchEventCall("scroll", DirectFlags, nativeEvent, MaxDepth)
    \/ Step

Spec == Init /\ [][Next]_vars

(***************************************************************************)
(* Reentrancy: handlers fire native events, on fewer listeners and targets *)
(* than in Spec, with the listeners of the traps only and fewer kinds of   *)
(* tree mutation, so that deeper stacks stay within reach.                 *)
(***************************************************************************)
NestedListeners ==
    trapBubbledEvent("click") \cup trapBubbledEvent("scroll")
    \cup trapEventForResponderEventSystem("scroll", FALSE)

\* Fired on node 14 (two nested trees) and on node 10 (outside React).
NestedEvents == {2, 4}

NextNested ==
    \/ \E listener \in NestedListeners, nativeEvent \in NestedEvents :
           NativeEvent(listener, nativeEvent, NestDepth)
    \/ \E enabled \in BOOLEAN : setEnabled(enabled)
    \/ MutateParentLink
    \/ MutateRootTag
    \/ MutateContainerOwner
    \/ Step

SpecNested == Init /\ [][NextNested]_vars

(***************************************************************************)
(* A burst: the first event the host fires after the module is loaded, and *)
(* the events its handlers fire, nested deeper than the pool is large; one  *)
(* kind of event on one target.                                            *)
(***************************************************************************)
DeepDepth == CALLBACK_BOOKKEEPING_POOL_SIZE + ExtraDepth

NextDeep ==
    \/ \E listener \in trapBubbledEvent("scroll") :
           /\ AtRest => heap = <<>>
           /\ NativeEvent(listener, 1, DeepDepth)
    \/ dispatchEvent
    \/ handleTopLevel
    \/ handleTopLevelLoop
    \/ HandlerReturns
    \/ HandlerThrows
    \/ Finally
    \/ Return

SpecDeep == Init /\ [][NextDeep]_vars

(***************************************************************************)
(* What the properties below read from a state.                            *)
(***************************************************************************)
Range(seq) == {seq[k] : k \in DOMAIN seq}

\* Where a trace holds calls of fn, and whether every call of a comes before
\* every call of b.
Positions(trace, fn) == {k \in DOMAIN trace : trace[k].fn = fn}
Precede(trace, a, b) ==
    \A j \in Positions(trace, a), k \in Positions(trace, b) : j < k

IsDelivery(call) == call.fn = "runExtractedPluginEventsInBatch"
Deliveries(frame) == SelectSeq(frame.trace, IsDelivery)
DeliveredTo(frame) ==
    LET calls == Deliveries(frame) IN [k \in 1..Len(calls) |-> calls[k].inst]

\* The frames between getTopLevelCallbackBookKeeping and the release: the
\* plugin-system dispatches in flight.
Holding == {k \in DOMAIN stack : stack[k].pc \in {"handleTopLevel", "loop", "handler", "finally"}}

\* The record a frame acquired, as acquire returned it.
Acquired(frame) ==
    BookKeepingInstance(frame.topLevelType, frame.nativeEvent, frame.targetInst, <<>>)

\* The trees as the properties describe them, read from the fibers and not
\* through the module's functions: an instance is in a mounted tree when the
\* top of its parent chain is tagged HostRoot, and then the next outer
\* instance is the one that owns the container of that root.
RECURSIVE TopOfParentChain(_)
TopOfParentChain(fiber) ==
    IF fiberReturn[fiber] = NULL THEN fiber ELSE TopOfParentChain(fiberReturn[fiber])

InRootedTree(inst) == fiberTag[TopOfParentChain(inst)] = HostRoot

OuterInstance(inst) == nodeInstance[ContainerInfo[TopOfParentChain(inst)]]

\* The nesting chain of an instance: the instance, the next outer instance,
\* and so on, up to the outermost tree or to the first instance of a tree
\* that is not mounted (which ends the chain).  fuel bounds a cyclic nesting.
RECURSIVE NestingChain(_, _)
NestingChain(inst, fuel) ==
    IF inst = NULL \/ fuel = 0
    THEN <<>>
    ELSE <<inst>> \o (IF InRootedTree(inst)
                      THEN NestingChain(OuterInstance(inst), fuel - 1)
                      ELSE <<>>)

Chain(inst) == NestingChain(inst, Cardinality(Fibers))

\* The records in use: alive and not in the pool.
InUse == DOMAIN heap \ Range(callbackBookkeepingPool)

\* The plugin-system dispatches in flight: the activations that have
\* acquired a record and have not yet released it.
InFlight == {n \in DOMAIN stack : stack[n].bookKeeping # NULL /\ stack[n].pc # "return"}

\* Whether a set of event system flags holds a bit.
HasFlag(flags, bit) == (flags \div bit) % 2 = 1

\* The call runExtractedPluginEventsInBatch(topLevelType, inst, nativeEvent,
\* eventTarget) of a frame's dispatch.
DeliverCall(frame, inst) ==
    Call("runExtractedPluginEventsInBatch", frame.topLevelType, inst,
         frame.nativeEvent, EventTargets[frame.nativeEvent], NULL, FALSE)

\* The trees are as they were when the module was loaded.
TreesUntouched ==
    fiberReturn = InitialReturn /\ fiberTag = InitialTag /\ nodeInstance = InitialInstance

(***************************************************************************)
(* C1.  In every plugin-system dispatch the ancestors are completely built *)
(* before the first call of runExtractedPluginEventsInBatch, and the       *)
(* instances delivered to are that sequence, in its order, whatever the    *)
(* handlers do to parent links, root tags and container ownership and      *)
(* whatever dispatches they nest: no delivery before the traversal; when   *)
(* the loop starts the sequence is the traversal of the trees as they are; *)
(* from then on the deliveries made are a prefix of the sequence built,    *)
(* and the whole of it when the loop ends without an error.                *)
(***************************************************************************)
C1_DeliveryFollowsBuiltAncestors ==
    \A k \in DOMAIN stack :
        LET f == stack[k]
        IN  /\ f.pc \in {"dispatchInteractiveEvent", "dispatchEvent", "handleTopLevel"}
                   => Deliveries(f) = <<>>
            /\ (f.pc = "loop" /\ f.i = 0)
                   => f.built = CollectAncestors(f.targetInst, <<>>)
            /\ f.pc = "loop" => DeliveredTo(f) = SubSeq(f.built, 1, f.i)
            /\ f.pc = "handler" => DeliveredTo(f) = SubSeq(f.built, 1, f.i + 1)
            /\ (f.pc = "finally" /\ f.exc) => DeliveredTo(f) = SubSeq(f.built, 1, f.i + 1)
            /\ (f.pc = "finally" /\ ~f.exc) => DeliveredTo(f) = f.built

\* A dispatch into two nested trees has delivered to both entry points
\* although the trees no longer give that sequence.
C1_Witness ==
    \E k \in DOMAIN stack :
        LET f == stack[k]
        IN  /\ f.pc = "finally" /\ ~f.exc
            /\ Len(f.built) = 2
            /\ DeliveredTo(f) = f.built
            /\ CollectAncestors(f.targetInst, <<>>) # f.built

(***************************************************************************)
(* C2.  An error thrown by runExtractedPluginEventsInBatch reaches the     *)
(* caller of the listener: it is still propagating after the finally       *)
(* block; when it reaches the caller the record of the dispatch is         *)
(* released, all fields cleared and the ancestors empty; and a dispatch    *)
(* after a failed one gets a record that holds its own arguments and no    *)
(* ancestors.                                                              *)
(***************************************************************************)
C2_ErrorSurfacesAfterRelease ==
    /\ \A k \in DOMAIN stack :
           (stack[k].threw /\ stack[k].pc \in {"finally", "return"}) => stack[k].exc
    /\ (stack # <<>> /\ Top.pc = "return" /\ Top.exc /\ Top.bookKeeping \in DOMAIN heap)
           => heap[Top.bookKeeping] = NoRecord
    /\ (deliveryFailed /\ stack # <<>> /\ Top.pc = "handleTopLevel")
           => heap[Top.bookKeeping] = Acquired(Top)

\* The error of a plugin-system dispatch that had delivered to an entry
\* point has reached the caller, and the record is back in the pool.
C2_Witness ==
    /\ stack # <<>>
    /\ Top.pc = "return" /\ Top.exc /\ Top.threw
    /\ Len(Top.built) > 0
    /\ Top.bookKeeping \in Range(callbackBookkeepingPool)

(***************************************************************************)
(* C3.  Under reentrancy a record in use is owned by one dispatch in       *)
(* flight: no two dispatches in flight hold the same record, no record in  *)
(* use is in the pool, the pool holds no record twice, and the record of   *)
(* every dispatch in flight holds that dispatch's own fields and ancestors *)
(* (a nested dispatch has not changed them).                               *)
(***************************************************************************)
C3_RecordsExclusivelyOwned ==
    /\ \A j, k \in Holding : j # k => stack[j].bookKeeping # stack[k].bookKeeping
    /\ \A k \in Holding : stack[k].bookKeeping \notin Range(callbackBookkeepingPool)
    /\ \A j, k \in DOMAIN callbackBookkeepingPool :
           j # k => callbackBookkeepingPool[j] # callbackBookkeepingPool[k]
    /\ \A k \in Holding :
           LET f == stack[k]
           IN  heap[f.bookKeeping] =
                   [Acquired(f) EXCEPT
                       !.ancestors = IF f.pc = "handleTopLevel" THEN <<>> ELSE f.built]

\* A nested dispatch took its record from the pool, ran with ancestors of
\* its own and failed, while the outer dispatch is still delivering.
C3_Witness ==
    /\ Len(stack) = 2
    /\ Holding = {1, 2}
    /\ stack[1].pc = "handler" /\ stack[1].i = 1
    /\ stack[2].pc = "finally" /\ stack[2].exc
    /\ stack[2].built # <<>>
    /\ stack[2].built # stack[1].built

(***************************************************************************)
(* C4.  The pool never holds more than CALLBACK_BOOKKEEPING_POOL_SIZE      *)
(* records, and a release that finds it holding that many leaves the pool  *)
(* as it is.                                                               *)
(***************************************************************************)
C4_PoolBounded ==
    /\ [](Len(callbackBookkeepingPool) <= CALLBACK_BOOKKEEPING_POOL_SIZE)
    /\ [][(/\ stack # <<>>
           /\ Top.pc = "finally"
           /\ Len(callbackBookkeepingPool) = CALLBACK_BOOKKEEPING_POOL_SIZE)
          => callbackBookkeepingPool' = callbackBookkeepingPool]_vars

\* A record was released to a full pool: it is cleared and gone, the pool
\* still full.
C4_Witness ==
    /\ stack # <<>>
    /\ Top.pc = "return"
    /\ Top.bookKeeping # NULL
    /\ Top.bookKeeping \notin DOMAIN heap
    /\ Len(callbackBookkeepingPool) = CALLBACK_BOOKKEEPING_POOL_SIZE

(***************************************************************************)
(* C5.  No field leaks across dispatches: every record in the pool has     *)
(* topLevelType, nativeEvent and targetInst cleared and no ancestors, and  *)
(* the record a dispatch has just acquired, new or from the pool, holds    *)
(* the three arguments of that acquire and no ancestors.                   *)
(***************************************************************************)
C5_NoFieldLeak ==
    /\ \A k \in DOMAIN callbackBookkeepingPool :
           heap[callbackBookkeepingPool[k]] = NoRecord
    /\ \A k \in DOMAIN stack :
           stack[k].pc = "handleTopLevel"
               => /\ stack[k].targetInst =
                         ResolveTarget(getEventTarget(stack[k].nativeEvent))
                  /\ heap[stack[k].bookKeeping] = Acquired(stack[k])

\* A dispatch has just acquired a record from a pool of two, for a target
\* that has an instance: the record was used by an earlier dispatch.
C5_Witness ==
    /\ Len(stack) = 1
    /\ Top.pc = "handleTopLevel"
    /\ Cardinality(DOMAIN heap) = 2
    /\ Len(callbackBookkeepingPool) = 1
    /\ Top.targetInst # NULL

(***************************************************************************)
(* C6.  Pooling is not observable: every listener activation makes the     *)
(* same calls to external collaborators, with the same arguments and in    *)
(* the same order, as the same activation does when every acquire          *)
(* allocates a record and every release discards it.                       *)
(***************************************************************************)
C6_PoolNotObservable ==
    \A k \in DOMAIN stack : stack[k].trace = stack[k].noPoolTrace

\* A dispatch that took its record from the pool has delivered to two entry
\* points, after an earlier dispatch had failed.
C6_Witness ==
    /\ Len(stack) = 1
    /\ Top.pc = "finally"
    /\ Cardinality(DOMAIN heap) = 2
    /\ Len(Deliveries(Top)) = 2
    /\ deliveryFailed

(***************************************************************************)
(* C7.  When _enabled is false, dispatchEvent returns at once: it calls    *)
(* neither getClosestInstanceFromNode nor runExtractedPluginEventsInBatch  *)
(* nor dispatchEventForResponderEventSystem, acquires no record and leaves *)
(* the pool and its records as they are.                                   *)
(***************************************************************************)
C7_DisabledDispatchDoesNothing ==
    [][(stack # <<>> /\ Top.pc = "dispatchEvent" /\ ~_enabled)
       => /\ Len(stack') = Len(stack)
          /\ stack'[Len(stack)].pc = "return"
          /\ stack'[Len(stack)].trace = Top.trace
          /\ stack'[Len(stack)].bookKeeping = NULL
          /\ ~stack'[Len(stack)].exc
          /\ callbackBookkeepingPool' = callbackBookkeepingPool
          /\ heap' = heap]_vars

\* dispatchEvent, bound to a listener of the responder system, has returned
\* without a call while the module is disabled and the pool holds a record.
C7_Witness ==
    /\ stack # <<>>
    /\ ~_enabled
    /\ Top.pc = "return"
    /\ Top.eventSystemFlags # PLUGIN_EVENT_SYSTEM
    /\ Top.trace = <<>>
    /\ callbackBookkeepingPool # <<>>

(***************************************************************************)
(* C8.  While _enabled is false, a native event on any listener the traps  *)
(* attached is a no-op: up to the return of dispatchEvent the listener has *)
(* made no call to flushDiscreteUpdates, discreteUpdates,                  *)
(* batchedEventUpdates, the instance resolver or a delivery function.      *)
(* (_enabled cannot change between the arrival of the event and the test   *)
(* of line 271.)                                                           *)
(***************************************************************************)
C8_DisabledListenerIsNoOp ==
    (stack # <<>> /\ ~_enabled /\ Top.pc \in {"dispatchInteractiveEvent", "dispatchEvent"})
        => Top.trace = <<>>

(***************************************************************************)
(* C9, as claimed.  A dispatch of an interactive type through the plugin   *)
(* system runs its deliveries inside exactly one discreteUpdates call and  *)
(* does not call batchedEventUpdates.                                      *)
(***************************************************************************)
C9_InteractiveNeverBatched ==
    \A k \in DOMAIN stack :
        LET f == stack[k]
        IN  (f.dispatch = "dispatchInteractiveEvent" /\ f.bookKeeping # NULL)
                => /\ Cardinality(Positions(f.trace, "discreteUpdates")) = 1
                   /\ Precede(f.trace, "discreteUpdates", "runExtractedPluginEventsInBatch")
                   /\ Positions(f.trace, "batchedEventUpdates") = {}

(***************************************************************************)
(* C9, amended.  A dispatch of an interactive type through the plugin      *)
(* system, the module enabled, calls discreteUpdates exactly once and,     *)
(* inside it, batchedEventUpdates exactly once; every delivery comes after *)
(* both calls and before the listener returns.  For the single-tree target *)
(* (fiber 2) a dispatch that ends without an error has made exactly one    *)
(* delivery, runExtractedPluginEventsInBatch(topLevelType, targetInst,     *)
(* nativeEvent, eventTarget).                                              *)
(***************************************************************************)
C9_InteractiveRunsDiscreteAroundBatched ==
    \A k \in DOMAIN stack :
        LET f == stack[k]
        IN  (f.dispatch = "dispatchInteractiveEvent" /\ f.bookKeeping # NULL)
                => /\ Cardinality(Positions(f.trace, "discreteUpdates")) = 1
                   /\ Cardinality(Positions(f.trace, "batchedEventUpdates")) = 1
                   /\ Precede(f.trace, "discreteUpdates", "batchedEventUpdates")
                   /\ Precede(f.trace, "batchedEventUpdates", "runExtractedPluginEventsInBatch")
                   /\ f.pc = "return" => Len(Deliveries(f)) <= Len(f.built)
                   /\ (f.pc \in {"finally", "return"} /\ ~f.exc /\ f.targetInst = 2)
                          => Deliveries(f) =
                                 <<Call("runExtractedPluginEventsInBatch", f.topLevelType, 2,
                                        f.nativeEvent, getEventTarget(f.nativeEvent),
                                        NULL, FALSE)>>

\* A click on the single-tree target has been delivered once and the
\* listener has returned.
C9_Witness ==
    /\ stack # <<>>
    /\ Top.dispatch = "dispatchInteractiveEvent"
    /\ Top.pc = "return" /\ ~Top.exc
    /\ Top.targetInst = 2
    /\ Len(Deliveries(Top)) = 1
    /\ Top.bookKeeping \in Range(callbackBookkeepingPool)

C11_MountedChainGivesItsInstances ==
    \A n \in DOMAIN stack :
        LET f == stack[n]
            chain == Chain(f.targetInst)
            k == Len(chain)
        IN  (f.pc = "loop" /\ f.i = 0 /\ f.targetInst # NULL)
                => /\ (/\ \A j \in 1..k : InRootedTree(chain[j])
                       /\ \A j, m \in 1..k : j # m => chain[j] # chain[m])
                          => /\ k >= 1
                             /\ Len(f.built) = k
                             /\ f.built = chain
                             /\ \A j, m \in 1..k : j # m => f.built[j] # f.built[m]
                             /\ k = 1 => f.built = <<f.targetInst>>
                             /\ k = 2 => f.built = <<f.targetInst, OuterInstance(f.targetInst)>>
                   /\ (TreesUntouched /\ f.targetInst = 2) => f.built = <<2>>
                   /\ (TreesUntouched /\ f.targetInst = 4) => f.built = <<4, 2>>

\* The traversal for an instance of the inner of two nested mounted trees
\* has ended with the inner and the outer instance.
C11_Witness ==
    /\ stack # <<>>
    /\ Top.pc = "loop" /\ Top.i = 0
    /\ Top.targetInst = 4
    /\ \A j \in 1..Len(Chain(4)) : InRootedTree(Chain(4)[j])
    /\ Top.built = <<4, 2>>

(***************************************************************************)
(* C12.  For an absent target instance the traversal gives the sequence of *)
(* one element, null, and the dispatch has called                          *)
(* runExtractedPluginEventsInBatch exactly once, with a null instance,     *)
(* when batchedEventUpdates is left; and no record holds null together     *)
(* with another entry.                                                     *)
(***************************************************************************)
C12_AbsentTargetGivesOneAbsentEntry ==
    /\ \A n \in DOMAIN stack :
           LET f == stack[n]
           IN  /\ (f.pc \in {"loop", "handler", "finally", "return"}
                      /\ f.bookKeeping # NULL /\ f.targetInst = NULL)
                     => f.built = <<NULL>>
               /\ (f.pc \in {"finally", "return"}
                      /\ f.bookKeeping # NULL /\ f.targetInst = NULL)
                     => Deliveries(f) = <<DeliverCall(f, NULL)>>
               /\ NULL \in Range(f.built) => f.built = <<NULL>>
    /\ \A id \in DOMAIN heap :
           NULL \in Range(heap[id].ancestors) => heap[id].ancestors = <<NULL>>

\* An event on the node outside React has been delivered once, with no
\* instance.
C12_Witness ==
    /\ stack # <<>>
    /\ Top.pc = "finally" /\ ~Top.exc
    /\ getClosestInstanceFromNode(getEventTarget(Top.nativeEvent)) = NULL
    /\ Top.built = <<NULL>>
    /\ Len(Deliveries(Top)) = 1

(***************************************************************************)
(* C13.  When the traversal ends, for a present target instance the        *)
(* ancestors are exactly the instances of the nesting chain before the     *)
(* first one whose top ancestor is not tagged HostRoot.  So the sequence   *)
(* is empty if and only if the target's own tree is detached, and then the *)
(* dispatch ends with no call of runExtractedPluginEventsInBatch and no    *)
(* error; in every other case it has at least one entry.                   *)
(***************************************************************************)
C13_DetachmentTruncates ==
    \A n \in DOMAIN stack :
        LET f == stack[n]
            chain == Chain(f.targetInst)
            detached == {j \in 1..Len(chain) : ~InRootedTree(chain[j])}
            kept == IF detached = {}
                    THEN Len(chain)
                    ELSE (CHOOSE j \in detached : \A m \in detached : j <= m) - 1
        IN  /\ (f.pc = "loop" /\ f.i = 0 /\ f.targetInst # NULL)
                   => /\ f.built = SubSeq(chain, 1, kept)
                      /\ (f.built = <<>>) <=> ~InRootedTree(f.targetInst)
                      /\ InRootedTree(f.targetInst) => Len(f.built) >= 1
            /\ (f.pc \in {"finally", "return"} /\ f.bookKeeping # NULL
                   /\ f.targetInst # NULL /\ f.built = <<>>)
                   => Deliveries(f) = <<>> /\ ~f.exc /\ ~f.threw

\* The dispatch of an event on the detached fragment has left
\* batchedEventUpdates with no entry point, no delivery and no error.
C13_Witness ==
    /\ stack # <<>>
    /\ Top.pc = "finally" /\ ~Top.exc
    /\ Top.targetInst = 5
    /\ ~InRootedTree(5)
    /\ Top.built = <<>>
    /\ Deliveries(Top) = <<>>

(***************************************************************************)
(* C14.  When getClosestInstanceFromNode finds an instance for the event's *)
(* target and isFiberMounted reports it not mounted, an enabled            *)
(* dispatchEvent goes on with a null target instance: the plugin system    *)
(* builds the sequence <<null>> and has called                             *)
(* runExtractedPluginEventsInBatch exactly once, with a null instance,     *)
(* when batchedEventUpdates is left; the responder system gets exactly one *)
(* dispatchEventForResponderEventSystem call, with a null instance; the    *)
(* module raises no error of its own; and no call carries, and no record   *)
(* holds, an instance that is not mounted.                                 *)
(***************************************************************************)
C14_UnmountedTargetIsAbsent ==
    /\ \A n \in DOMAIN stack :
           LET f == stack[n]
               found == getClosestInstanceFromNode(getEventTarget(f.nativeEvent))
               alt == Positions(f.trace, "dispatchEventForResponderEventSystem")
           IN  /\ (/\ found # NULL
                   /\ ~isFiberMounted(found)
                   /\ Positions(f.trace, "getClosestInstanceFromNode") # {})
                      => /\ f.targetInst = NULL
                         /\ f.exc => f.threw
                         /\ f.bookKeeping # NULL
                                => /\ alt = {}
                                   /\ f.pc # "handleTopLevel" => f.built = <<NULL>>
                                   /\ f.pc \in {"finally", "return"}
                                          => Deliveries(f) = <<DeliverCall(f, NULL)>>
                         /\ f.bookKeeping = NULL
                                => /\ Cardinality(alt) = 1
                                   /\ \A j \in alt : f.trace[j].inst = NULL
                                   /\ Deliveries(f) = <<>>
               /\ \A j \in DOMAIN f.trace :
                      f.trace[j].inst = NULL \/ isFiberMounted(f.trace[j].inst)
    /\ \A id \in DOMAIN heap :
           /\ heap[id].targetInst = NULL \/ isFiberMounted(heap[id].targetInst)
           /\ \A j \in DOMAIN heap[id].ancestors :
                  heap[id].ancestors[j] = NULL \/ isFiberMounted(heap[id].ancestors[j])

\* An event on the node of the fiber whose mount is not committed has been
\* delivered once by the plugin system, with no instance.
C14_Witness ==
    /\ stack # <<>>
    /\ Top.pc = "finally" /\ ~Top.exc
    /\ getClosestInstanceFromNode(getEventTarget(Top.nativeEvent)) = 6
    /\ ~isFiberMounted(6)
    /\ Deliveries(Top) = <<DeliverCall(Top, NULL)>>

(***************************************************************************)
(* C15, as claimed.  A plugin-system dispatch that was not dropped at its  *)
(* entry has, when the listener returns, called                            *)
(* runExtractedPluginEventsInBatch(topLevelType, entry, nativeEvent,       *)
(* eventTarget) exactly once for every entry of the sequence built, in     *)
(* its order, whatever the handlers did, failing included.                 *)
(***************************************************************************)
C15_DeliveryRunsToCompletion ==
    \A n \in DOMAIN stack :
        LET f == stack[n]
        IN  (f.pc = "return" /\ f.bookKeeping # NULL)
                => Deliveries(f) = [j \in 1..Len(f.built) |-> DeliverCall(f, f.built[j])]

(***************************************************************************)
(* C15, amended.  A dispatch is dropped only at line 271.  Once the loop   *)
(* of line 140 has started, runExtractedPluginEventsInBatch(topLevelType,  *)
(* entry, nativeEvent, eventTarget) is called once for every entry of the  *)
(* sequence built, in its order, whether the handlers disable the module,  *)
(* change the trees or fire nested events; only a call that throws ends    *)
(* the loop: the calls made are then the entries up to the failing one,    *)
(* and the error propagates.                                               *)
(***************************************************************************)
C15_DeliveryRunsToCompletionOrThrows ==
    \A n \in DOMAIN stack :
        LET f == stack[n]
            all == [j \in 1..Len(f.built) |-> DeliverCall(f, f.built[j])]
        IN  f.bookKeeping # NULL
                => /\ f.pc = "loop" => Deliveries(f) = SubSeq(all, 1, f.i) /\ ~f.threw
                   /\ f.pc = "handler" => Deliveries(f) = SubSeq(all, 1, f.i + 1) /\ ~f.threw
                   /\ (f.pc \in {"finally", "return"} /\ ~f.threw)
                          => Deliveries(f) = all /\ ~f.exc
                   /\ (f.pc \in {"finally", "return"} /\ f.threw)
                          => /\ f.i < Len(all)
                             /\ Deliveries(f) = SubSeq(all, 1, f.i + 1)
                   /\ (f.pc = "return" /\ f.threw) => f.exc

\* A dispatch into two nested trees has delivered to both entry points and
\* returned although a handler disabled the module during the loop.
C15_Witness ==
    /\ stack # <<>>
    /\ Top.pc = "return" /\ ~Top.exc
    /\ ~_enabled
    /\ Len(Top.built) = 2
    /\ Deliveries(Top) = <<DeliverCall(Top, Top.built[1]), DeliverCall(Top, Top.built[2])>>

(***************************************************************************)
(* C16.  A dispatchEvent that passed the test of line 271 is routed by the *)
(* event system.  With enableEventAPI off it takes the plugin path         *)
(* whatever its eventSystemFlags, and dispatchEventForResponderEventSystem *)
(* is never called.  With enableEventAPI on it takes the plugin path if    *)
(* and only if eventSystemFlags is PLUGIN_EVENT_SYSTEM; otherwise it calls *)
(* dispatchEventForResponderEventSystem(topLevelType, targetInst,          *)
(* nativeEvent, nativeEventTarget, eventSystemFlags) exactly once,         *)
(* acquires no record, calls neither batchedEventUpdates nor               *)
(* runExtractedPluginEventsInBatch, and no step of it changes the pool or  *)
(* a record.                                                               *)
(***************************************************************************)
C16_RoutedByEventSystem ==
    /\ [](\A n \in DOMAIN stack :
             LET f == stack[n]
                 alt == Positions(f.trace, "dispatchEventForResponderEventSystem")
                 batched == Positions(f.trace, "batchedEventUpdates")
             IN  Positions(f.trace, "getClosestInstanceFromNode") # {}
                     => /\ ~enableEventAPI
                               => /\ f.bookKeeping # NULL
                                  /\ Cardinality(batched) = 1
                                  /\ alt = {}
                        /\ (enableEventAPI /\ f.eventSystemFlags = PLUGIN_EVENT_SYSTEM)
                               => /\ f.bookKeeping # NULL
                                  /\ Cardinality(batched) = 1
                                  /\ alt = {}
                        /\ (enableEventAPI /\ f.eventSystemFlags # PLUGIN_EVENT_SYSTEM)
                               => /\ f.bookKeeping = NULL
                                  /\ batched = {}
                                  /\ Deliveries(f) = <<>>
                                  /\ Cardinality(alt) = 1
                                  /\ \A j \in alt :
                                         f.trace[j] =
                                             Call("dispatchEventForResponderEventSystem",
                                                  f.topLevelType, f.targetInst, f.nativeEvent,
                                                  EventTargets[f.nativeEvent],
                                                  f.eventSystemFlags, FALSE))
    /\ [][(/\ stack # <<>>
           /\ enableEventAPI
           /\ Top.eventSystemFlags # PLUGIN_EVENT_SYSTEM)
          => /\ callbackBookkeepingPool' = callbackBookkeepingPool
             /\ heap' = heap]_vars

\* With enableEventAPI off, a call of dispatchEvent with flags of the
\* responder system has gone through the plugin path and delivered.
C16_Witness ==
    /\ stack # <<>>
    /\ ~enableEventAPI
    /\ Top.eventSystemFlags # PLUGIN_EVENT_SYSTEM
    /\ Top.pc = "finally"
    /\ Top.bookKeeping # NULL
    /\ Len(Deliveries(Top)) = 1

(***************************************************************************)
(* C17.  trapEventForResponderEventSystem(element, topLevelType, passive)  *)
(* attaches nothing when enableEventAPI is off.  When it is on it attaches *)
(* exactly one listener, in the capture phase, bound to dispatchEvent with *)
(* flags that hold RESPONDER_EVENT_SYSTEM and exactly one of IS_PASSIVE    *)
(* and IS_ACTIVE: IS_PASSIVE, and a passive listener, iff passive is asked *)
(* and the host supports passive listeners; IS_ACTIVE with                 *)
(* PASSIVE_NOT_SUPPORTED, and a listener that is not passive, iff passive  *)
(* is asked and the host does not support them; IS_ACTIVE without          *)
(* PASSIVE_NOT_SUPPORTED iff passive is not asked.  The listener is added  *)
(* with addEventCaptureListenerWithPassiveFlag iff the host supports       *)
(* passive listeners.  A native event on such a listener runs dispatchEvent*)
(* with those flags.                                                       *)
(***************************************************************************)
C17_ResponderTrapFlags ==
    /\ \A topLevelType \in TopLevelTypes, passive \in BOOLEAN :
           LET attached == trapEventForResponderEventSystem(topLevelType, passive)
           IN  /\ ~enableEventAPI => attached = {}
               /\ enableEventAPI
                      => /\ Cardinality(attached) = 1
                         /\ \A l \in attached :
                                LET isPassive == HasFlag(l.eventSystemFlags, IS_PASSIVE)
                                    isActive == HasFlag(l.eventSystemFlags, IS_ACTIVE)
                                    notSupported ==
                                        HasFlag(l.eventSystemFlags, PASSIVE_NOT_SUPPORTED)
                                IN  /\ l.phase = "capture"
                                    /\ l.dispatch = "dispatchEvent"
                                    /\ l.topLevelType = topLevelType
                                    /\ HasFlag(l.eventSystemFlags, RESPONDER_EVENT_SYSTEM)
                                    /\ ~HasFlag(l.eventSystemFlags, PLUGIN_EVENT_SYSTEM)
                                    /\ isPassive # isActive
                                    /\ isPassive <=> (passive /\ passiveBrowserEventsSupported)
                                    /\ l.passive <=> (passive /\ passiveBrowserEventsSupported)
                                    /\ (isActive /\ notSupported)
                                           <=> (passive /\ ~passiveBrowserEventsSupported)
                                    /\ (isActive /\ ~notSupported) <=> ~passive
                                    /\ (l.attach = "addEventCaptureListenerWithPassiveFlag")
                                           <=> passiveBrowserEventsSupported
                                    /\ (l.attach = "addEventCaptureListener")
                                           <=> ~passiveBrowserEventsSupported
    /\ \A n \in DOMAIN stack :
           (enableEventAPI /\ stack[n].eventSystemFlags # PLUGIN_EVENT_SYSTEM)
               => \E passive \in BOOLEAN :
                      \E l \in trapEventForResponderEventSystem(stack[n].topLevelType, passive) :
                          /\ stack[n].dispatch = l.dispatch
                          /\ stack[n].eventSystemFlags = l.eventSystemFlags
                          /\ HasFlag(stack[n].eventSystemFlags, IS_PASSIVE)
                                 => passiveBrowserEventsSupported

\* On a host without passive listeners, a native event has arrived on the
\* listener attached for a passive request and reached the responder system
\* with the flags active and passive-not-supported.
C17_Witness ==
    /\ stack # <<>>
    /\ enableEventAPI /\ ~passiveBrowserEventsSupported
    /\ Top.pc = "responder"
    /\ Top.eventSystemFlags = RESPONDER_EVENT_SYSTEM + IS_ACTIVE + PASSIVE_NOT_SUPPORTED
    /\ \E l \in trapEventForResponderEventSystem(Top.topLevelType, TRUE) :
           l.eventSystemFlags = Top.eventSystemFlags /\ ~l.passive

(***************************************************************************)
(* C18.  trapBubbledEvent(topLevelType, element) attaches exactly one      *)
(* listener in the bubble phase and trapCapturedEvent exactly one in the   *)
(* capture phase, each bound with PLUGIN_EVENT_SYSTEM, to                  *)
(* dispatchInteractiveEvent if and only if the type is interactive and to  *)
(* dispatchEvent otherwise.  So a native event on a listener for a type    *)
(* that is not interactive never calls shouldflushDiscreteUpdates,         *)
(* flushDiscreteUpdates or discreteUpdates, and every delivery of it comes *)
(* after its single batchedEventUpdates call.                              *)
(***************************************************************************)
C18_PluginTrapsBindByInteractivity ==
    /\ \A topLevelType \in TopLevelTypes :
           LET bound == IF isInteractiveTopLevelEventType(topLevelType)
                        THEN "dispatchInteractiveEvent"
                        ELSE "dispatchEvent"
           IN  /\ Cardinality(trapBubbledEvent(topLevelType)) = 1
               /\ Cardinality(trapCapturedEvent(topLevelType)) = 1
               /\ \A l \in trapBubbledEvent(topLevelType) :
                      /\ l.phase = "bubble" /\ l.attach = "addEventBubbleListener"
                      /\ l.topLevelType = topLevelType
                      /\ l.eventSystemFlags = PLUGIN_EVENT_SYSTEM
                      /\ l.dispatch = bound
               /\ \A l \in trapCapturedEvent(topLevelType) :
                      /\ l.phase = "capture" /\ l.attach = "addEventCaptureListener"
                      /\ l.topLevelType = topLevelType
                      /\ l.eventSystemFlags = PLUGIN_EVENT_SYSTEM
                      /\ l.dispatch = bound
    /\ \A n \in DOMAIN stack :
           LET f == stack[n]
           IN  (/\ f.eventSystemFlags = PLUGIN_EVENT_SYSTEM
                /\ ~isInteractiveTopLevelEventType(f.topLevelType))
                   => /\ f.dispatch = "dispatchEvent"
                      /\ Positions(f.trace, "shouldflushDiscreteUpdates") = {}
                      /\ Positions(f.trace, "flushDiscreteUpdates") = {}
                      /\ Positions(f.trace, "discreteUpdates") = {}
                      /\ Deliveries(f) # <<>>
                             => Cardinality(Positions(f.trace, "batchedEventUpdates")) = 1
                      /\ Precede(f.trace, "batchedEventUpdates",
                                 "runExtractedPluginEventsInBatch")

\* A scroll event on a listener of the plugin system has delivered to the
\* two nested trees inside one batchedEventUpdates call.
C18_Witness ==
    /\ stack # <<>>
    /\ Top.topLevelType = "scroll"
    /\ Top.eventSystemFlags = PLUGIN_EVENT_SYSTEM
    /\ Top.pc = "finally" /\ ~Top.exc
    /\ Len(Deliveries(Top)) = 2
    /\ Cardinality(Positions(Top.trace, "batchedEventUpdates")) = 1
    /\ Positions(Top.trace, "discreteUpdates") = {}

(***************************************************************************)
(* C19.  Every dispatchEvent that passed the test of line 271 and takes    *)
(* the plugin path calls batchedEventUpdates exactly once.  The record it  *)
(* passes has no ancestors yet (the traversal runs inside the call), every *)
(* runExtractedPluginEventsInBatch call comes after it, and no call is     *)
(* made once the call is left (in the finally block).  This holds for an   *)
(* empty sequence too: one batchedEventUpdates call, no iteration of the   *)
(* loop of line 140.                                                       *)
(***************************************************************************)
C19_OneBatchAroundTraversalAndDelivery ==
    /\ [](\A n \in DOMAIN stack :
             LET f == stack[n]
                 batched == Positions(f.trace, "batchedEventUpdates")
             IN  (/\ Positions(f.trace, "getClosestInstanceFromNode") # {}
                  /\ ~enableEventAPI \/ f.eventSystemFlags = PLUGIN_EVENT_SYSTEM)
                     => /\ Cardinality(batched) = 1
                        /\ \A j \in batched :
                               f.trace[j] =
                                   Call("batchedEventUpdates", f.topLevelType, f.targetInst,
                                        f.nativeEvent, NULL, 0, FALSE)
                        /\ f.pc = "handleTopLevel"
                               => f.built = <<>> /\ heap[f.bookKeeping].ancestors = <<>>
                        /\ Precede(f.trace, "batchedEventUpdates",
                                   "runExtractedPluginEventsInBatch")
                        /\ (f.pc \in {"finally", "return"} /\ f.built = <<>>)
                               => f.i = 0 /\ Deliveries(f) = <<>>)
    /\ [][(stack # <<>> /\ Top.pc = "finally")
          => /\ Len(stack') = Len(stack)
             /\ stack'[Len(stack)].trace = Top.trace]_vars

\* The dispatch of an event on the detached fragment has left its single
\* batchedEventUpdates call without an iteration of the loop.
C19_Witness ==
    /\ stack # <<>>
    /\ Top.pc = "finally"
    /\ Top.targetInst # NULL
    /\ Top.built = <<>> /\ Top.i = 0
    /\ Cardinality(Positions(Top.trace, "batchedEventUpdates")) = 1
    /\ Positions(Top.trace, "runExtractedPluginEventsInBatch") = {}

(***************************************************************************)
(* C20.  Acquire and release are paired within one dispatch.  The records  *)
(* in use are exactly the records of the plugin-system dispatches in       *)
(* flight, one each, so none is in use when no dispatch is in flight.  A   *)
(* dispatch acquires one record, not in use before, when it takes the      *)
(* plugin path, and the finally block releases that record, whether an     *)
(* error is propagating or not; no other step changes the records in use.  *)
(* Nested at most CALLBACK_BOOKKEEPING_POOL_SIZE deep (as every behaviour  *)
(* of this specification is), the record of a dispatch that has returned   *)
(* is in the pool, cleared.                                                *)
(***************************************************************************)
C20_AcquireReleasePaired ==
    /\ [](/\ InUse = {stack[n].bookKeeping : n \in InFlight}
          /\ Cardinality(InUse) = Cardinality(InFlight)
          /\ InFlight = {} => InUse = {}
          /\ \A n \in DOMAIN stack :
                 (stack[n].pc = "return" /\ stack[n].bookKeeping # NULL)
                     => /\ stack[n].bookKeeping \in Range(callbackBookkeepingPool)
                        /\ heap[stack[n].bookKeeping] = NoRecord)
    /\ [][IF stack # <<>> /\ Top.pc = "dispatchEvent"
                /\ Len(stack') = Len(stack) /\ stack'[Len(stack)].pc = "handleTopLevel"
          THEN /\ stack'[Len(stack)].bookKeeping \notin InUse
               /\ InUse' = InUse \cup {stack'[Len(stack)].bookKeeping}
          ELSE IF stack # <<>> /\ Top.pc = "finally"
          THEN /\ Top.bookKeeping \in InUse
               /\ InUse' = InUse \ {Top.bookKeeping}
          ELSE InUse' = InUse]_vars

\* A nested dispatch has failed and released its record to the pool while
\* the outer dispatch, still delivering, holds the only record in use.
C20_Witness ==
    /\ Len(stack) = 2
    /\ Top.pc = "return" /\ Top.exc
    /\ Top.bookKeeping \in Range(callbackBookkeepingPool)
    /\ InFlight = {1}
    /\ InUse = {stack[1].bookKeeping}

====
